---- MODULE Spec2Model ----
(***************************************************************************)
(* Provisioning pipeline of the agent-container manager: SSH key store,    *)
(* SSH port allocator, the buildAndCreateContainer pipeline and the        *)
(* container routes that call it, run against a container engine.          *)
(***************************************************************************)
EXTENDS Integers, Sequences, FiniteSets, TLC

\* ---------------------------------------------------------------- bounds
MaxAttempts == 2          \* provisioning requests accepted in one behaviour
MaxAdminOps == 1          \* DELETE /:id requests in one behaviour

Procs == {1, 2}           \* concurrently served POST /containers requests
Names == {"a", "b"}       \* container names of the requests

\* ------------------------------------------------------ program constants
SSH_PORT_START == 2222
SSH_PORT_ATTEMPTS == 100
SshPorts == SSH_PORT_START .. (SSH_PORT_START + SSH_PORT_ATTEMPTS - 1)

NoKey == 0                \* no key file / no image under the tag
NoPort == 0               \* sshPort: null
NoId == 0

\* An optional string field of the request body: absent or a text.
OptVals == {"absent", "given"}
\* JavaScript truthiness of an optional string (if (dockerfile) / if (image))
Truthy(v) == v = "given"

\* The request bodies: for the first name no field, the recipe alone, or both
\* fields; for the second name the base image alone.
Requests ==
  { [name |-> "a", image |-> "absent", dockerfile |-> "absent"],
    [name |-> "a", image |-> "absent", dockerfile |-> "given"],
    [name |-> "a", image |-> "given", dockerfile |-> "given"],
    [name |-> "b", image |-> "given", dockerfile |-> "absent"] }

\* The steps of one provisioning attempt, in the order of the source text.
PipelineOrder == <<"keygen", "synth", "build", "port", "create", "start", "inspect">>
EngineSteps == {"build", "port", "create", "start", "inspect"}

VARIABLES
  pc,              \* position of each request handler
  req,             \* request body of the attempt
  pubKey,          \* publicKey returned by generateSshKeyPair
  usedPorts,       \* the set returned by getUsedContainerPorts
  sshPort,         \* port returned by findAvailableSshPort
  cid,             \* id of the container created by the attempt
  result,          \* HTTP outcome of the last attempt: "none", "ok", "error"
  err,             \* error of the last attempt
  desc,            \* ContainerInfo returned by a successful attempt
  log,             \* steps the attempt has entered, in order
  keyStore,        \* data/ssh-keys/<name>.pem : key or NoKey
  nextKey,         \* ssh-keygen produces fresh key material
  images,          \* engine: image under tag acm-<name>:latest (key baked in)
  containers,      \* engine: the containers
  nextId,          \* engine: next container id
  hostListeners,   \* ports on which a loopback bind fails (OS listeners)
  engineOnLoopback,\* published ports of the engine occupy the probed sockets
  attempts,        \* number of provisioning requests accepted
  publishedAtCall, \* history: ports published when findAvailableSshPort was called
  priorLeases,     \* history: leases held by others when findAvailableSshPort was called
  apc, aid, ainfo, \* DELETE /:id handler: position, id, inspected name
  adminOps,
  call,            \* a service function applied on its own: name, argument, result
  stream           \* POST /:name/build: handler position, events sent, closes

cvars == <<pc, result, err, usedPorts, publishedAtCall, priorLeases>>
dvars == <<req, pubKey, sshPort, cid, desc, log>>
pvars == <<cvars, dvars>>
avars == <<apc, aid, ainfo, adminOps>>
evars == <<keyStore, nextKey, images, containers, nextId, hostListeners, engineOnLoopback>>
xvars == <<call, stream>>
vars == <<pvars, avars, evars, attempts, xvars>>

\* ------------------------------------------------------------ the engine
\* Ports the engine reports in listContainers(...).Ports[].PublicPort:
\* the bindings of the running containers, managed or not.
PublishedPorts == UNION {c.ports : c \in {d \in containers : d.state = "running"}}

PublishedByOthers(id) ==
  UNION {c.ports : c \in {d \in containers : d.state = "running" /\ d.id # id}}

ContainerById(id) == CHOOSE c \in containers : c.id = id
Exists(id) == \E c \in containers : c.id = id

\* The engine binds a host port at start: it refuses a port another running
\* container publishes, or one a host listener holds.
EngineCanBind(id, ports) ==
  /\ ports \cap PublishedByOthers(id) = {}
  /\ engineOnLoopback => ports \cap hostListeners = {}

\* docker.createContainer: the engine refuses a name that is in use.
EngineCanCreate(name) == ~\E c \in containers : c.name = name


\* --------------------------------------------------------- port allocator
\* isPortAvailable: server.listen(port, '127.0.0.1') succeeds
isPortAvailable(port) ==
  /\ port \notin hostListeners
  /\ engineOnLoopback => port \notin PublishedPorts

\* findAvailablePort(startPort, maxAttempts): the first port of the range
\* that passes the bind probe, NoPort when the loop ends and the function throws
findAvailablePort(startPort, maxAttempts) ==
  LET range == startPort .. (startPort + maxAttempts - 1)
  IN IF \A q \in range : ~isPortAvailable(q) THEN NoPort
     ELSE CHOOSE q \in range :
            isPortAvailable(q) /\ \A r \in startPort .. (q - 1) : ~isPortAvailable(r)

\* getUsedContainerPorts: the published ports, or the empty set when
\* docker.listContainers throws (the catch block swallows the error)
getUsedContainerPorts(listOk) == IF listOk THEN PublishedPorts ELSE {}

\* the for loop of findAvailableSshPort over 2222 .. 2321 in ascending order:
\* a port in usedPorts is skipped, the first port that passes the bind probe
\* is returned, NoPort when the loop ends and the function throws
ScanSshPorts(used) ==
  LET Skipped(q) == q \in used \/ ~isPortAvailable(q)
  IN IF \A q \in SshPorts : Skipped(q) THEN NoPort
     ELSE CHOOSE q \in SshPorts :
            ~Skipped(q) /\ \A r \in SSH_PORT_START .. (q - 1) : Skipped(r)

\* no function applied on its own, no recipe build requested
NoCall == [fn |-> "none"]
NoStream == [pc |-> "idle", name |-> "", events |-> <<>>, closes |-> 0]

\* --------------------------------------------------- provisioning pipeline
NoRequest == [name |-> "", image |-> "absent", dockerfile |-> "absent"]
NoCommand == <<>>           \* sshCommand: null
NoDesc ==
  [id |-> NoId, name |-> "", image |-> NoKey, state |-> "none", sshPort |-> NoPort,
   sshCommand |-> NoCommand]

\* an attempt holds its port from the return of findAvailableSshPort to its end
Leased(p) == pc[p] \in {"create", "start", "inspect"}

\* buildAndCreateContainer returns or throws: its lease ends, the route
\* handler holds the outcome
Return(p, res, e) ==
  /\ pc' = [pc EXCEPT ![p] = "done"]
  /\ result' = [result EXCEPT ![p] = res]
  /\ err' = [err EXCEPT ![p] = e]
  /\ usedPorts' = [usedPorts EXCEPT ![p] = {}]
  /\ publishedAtCall' = [publishedAtCall EXCEPT ![p] = {}]
  /\ priorLeases' = [q \in Procs |-> IF q = p THEN {} ELSE priorLeases[q] \ {p}]

\* the catch block of containers.post('/'): a thrown error becomes a 500 response
RespondError(p, e) == Return(p, "error", e)

\* the steps with port allocation moved in front of the image build
NextPcPortBeforeBuild(step) ==
  CASE step = "keygen"  -> "synth"
    [] step = "synth"   -> "port"
    [] step = "port"    -> "build"
    [] step = "build"   -> "create"
    [] step = "create"  -> "start"
    [] step = "start"   -> "inspect"
    [] step = "inspect" -> "done"

\* the position that follows a step that completed without throwing
NextPc(step) ==
  CASE step = "keygen"  -> "synth"
    [] step = "synth"   -> "build"
    [] step = "build"   -> "port"
    [] step = "port"    -> "create"
    [] step = "create"  -> "start"
    [] step = "start"   -> "inspect"
    [] step = "inspect" -> "done"

Advance(p, step) ==
  /\ pc' = [pc EXCEPT ![p] = NextPc(step)]
  /\ UNCHANGED <<result, err, usedPorts, publishedAtCall, priorLeases>>

Enter(p, step) == log' = [log EXCEPT ![p] = Append(@, step)]

\* POST /containers accepted by the schema: buildAndCreateContainer(body) starts.
\* It is served by the first free handler; requests for one name are served
\* one at a time.
Provision(p, r) ==
  /\ pc[p] = "idle"
  /\ attempts < MaxAttempts
  /\ \A q \in Procs : q < p => pc[q] # "idle"
  /\ \A q \in Procs \ {p} : pc[q] = "idle" \/ req[q].name # r.name
  /\ pc' = [pc EXCEPT ![p] = "keygen"]
  /\ req' = [req EXCEPT ![p] = r]
  /\ attempts' = attempts + 1
  /\ UNCHANGED <<result, err, usedPorts, publishedAtCall, priorLeases>>
  /\ UNCHANGED <<pubKey, sshPort, cid, desc, log, avars, evars>>
  /\ UNCHANGED xvars

\* c.json(...) of containers.post('/'): the response is sent, the handler ends
Respond(p) ==
  /\ pc[p] = "done"
  /\ pc' = [pc EXCEPT ![p] = "idle"]
  /\ req' = [req EXCEPT ![p] = NoRequest]
  /\ pubKey' = [pubKey EXCEPT ![p] = NoKey]
  /\ sshPort' = [sshPort EXCEPT ![p] = NoPort]
  /\ cid' = [cid EXCEPT ![p] = NoId]
  /\ result' = [result EXCEPT ![p] = "none"]
  /\ err' = [err EXCEPT ![p] = "none"]
  /\ desc' = [desc EXCEPT ![p] = NoDesc]
  /\ log' = [log EXCEPT ![p] = <<>>]
  /\ UNCHANGED <<usedPorts, publishedAtCall, priorLeases, avars, evars, attempts>>
  /\ UNCHANGED xvars

\* generateSshKeyPair with the final rm applied to the private key file
\* instead of the .pub file
generateSshKeyPairRmPrivate(p, ok) ==
  IF ok
  THEN /\ keyStore' = [keyStore EXCEPT ![req[p].name] = NoKey]
       /\ pubKey' = [pubKey EXCEPT ![p] = nextKey]
       /\ nextKey' = nextKey + 1
  ELSE /\ keyStore' = [keyStore EXCEPT ![req[p].name] = NoKey]
       /\ UNCHANGED <<pubKey, nextKey>>

\* getPrivateKey(name): readFile of <name>.pem, NoKey when the read fails
getPrivateKey(name) == keyStore[name]

\* generateSshKeyPair(name): rm of the old private and public key files,
\* execSync(ssh-keygen), read of both files, rm of the .pub file.  The old
\* key is removed before ssh-keygen runs, so a failure leaves no key.
generateSshKeyPair(p, ok) ==
  IF ok
  THEN /\ keyStore' = [keyStore EXCEPT ![req[p].name] = nextKey]
       /\ pubKey' = [pubKey EXCEPT ![p] = nextKey]
       /\ nextKey' = nextKey + 1
  ELSE /\ keyStore' = [keyStore EXCEPT ![req[p].name] = NoKey]
       /\ UNCHANGED <<pubKey, nextKey>>

\* if (dockerfile) ... else if (image) ... else throw: which recipe is
\* synthesized with the public key, "none" when the else branch throws
RecipeKind(r) ==
  IF Truthy(r.dockerfile) THEN "user"
  ELSE IF Truthy(r.image) THEN "base"
  ELSE "none"

\* the pipeline with the failure of generateSshKeyPair caught and ignored
GenerateKeyIgnoreFailure(p, ok) ==
  /\ pc[p] = "keygen"
  /\ generateSshKeyPair(p, ok)
  /\ IF RecipeKind(req[p]) = "none"
     THEN /\ Enter(p, "keygen")
          /\ RespondError(p, "InvalidRequest")
     ELSE /\ log' = [log EXCEPT ![p] = Append(Append(@, "keygen"), "synth")]
          /\ pc' = [pc EXCEPT ![p] = NextPc("synth")]
          /\ UNCHANGED <<result, err, usedPorts, publishedAtCall, priorLeases>>
  /\ UNCHANGED <<req, sshPort, cid, desc>>
  /\ UNCHANGED <<avars, attempts, images, containers, nextId, hostListeners, engineOnLoopback>>
  /\ UNCHANGED xvars

\* const { publicKey } = await generateSshKeyPair(name), then the if chain
\* up to the call of buildImage, which runs without suspending
GenerateKey(p, ok) ==
  /\ pc[p] = "keygen"
  /\ generateSshKeyPair(p, ok)
  /\ IF ~ok
     THEN /\ Enter(p, "keygen")
          /\ RespondError(p, "KeyGenerationFailed")
     ELSE IF RecipeKind(req[p]) = "none"
     THEN /\ Enter(p, "keygen")
          /\ RespondError(p, "InvalidRequest")
     ELSE /\ log' = [log EXCEPT ![p] = Append(Append(@, "keygen"), "synth")]
          /\ pc' = [pc EXCEPT ![p] = NextPc("synth")]
          /\ UNCHANGED <<result, err, usedPorts, publishedAtCall, priorLeases>>
  /\ UNCHANGED <<req, sshPort, cid, desc>>
  /\ UNCHANGED <<avars, attempts, images, containers, nextId, hostListeners, engineOnLoopback>>
  /\ UNCHANGED xvars

\* the build step with a failure handler that removes the key of the attempt
BuildImageRollback(p, outcome) ==
  /\ pc[p] = "build"
  /\ Enter(p, "build")
  /\ UNCHANGED images
  /\ IF outcome = "finished"
     THEN Advance(p, "build") /\ UNCHANGED keyStore
     ELSE /\ RespondError(p, "BuildFailed")
          /\ keyStore' = [keyStore EXCEPT ![req[p].name] = NoKey]
  /\ UNCHANGED <<req, pubKey, sshPort, cid, desc>>
  /\ UNCHANGED <<avars, attempts, nextKey, containers, nextId, hostListeners, engineOnLoopback>>
  /\ UNCHANGED xvars

\* What the engine does with a build: the stream ends without error, a message
\* of the stream carries an error, the request fails, or no stream comes back.
BuildOutcomes == {"finished", "streamError", "transportError", "noStream"}

\* buildImage with the error argument of the followProgress callback ignored
buildImageIgnoresStreamError(outcome) == outcome \in {"finished", "streamError"}

\* dockerService.buildImage: TRUE when the promise resolves, FALSE when it
\* rejects (err of docker.buildImage, !stream, err of followProgress)
buildImage(outcome) == outcome = "finished"

\* await dockerService.buildImage(recipe, "acm-<name>:latest"): the engine
\* tags an image only when the build finished
BuildImage(p, outcome) ==
  /\ pc[p] = "build"
  /\ Enter(p, "build")
  /\ images' = IF outcome = "finished"
               THEN [images EXCEPT ![req[p].name] = pubKey[p]]
               ELSE images
  /\ IF buildImage(outcome)
     THEN Advance(p, "build")
     ELSE RespondError(p, "BuildFailed")
  /\ UNCHANGED <<req, pubKey, sshPort, cid, desc>>
  /\ UNCHANGED <<avars, attempts, keyStore, nextKey, containers, nextId, hostListeners, engineOnLoopback>>
  /\ UNCHANGED xvars

\* findAvailableSshPort, first statement: await getUsedContainerPorts()
ListPorts(p, listOk) ==
  /\ pc[p] = "port"
  /\ Enter(p, "port")
  /\ usedPorts' = [usedPorts EXCEPT ![p] = getUsedContainerPorts(listOk)]
  /\ pc' = [pc EXCEPT ![p] = "scan"]
  /\ publishedAtCall' = [publishedAtCall EXCEPT ![p] = PublishedPorts]
  /\ priorLeases' = [priorLeases EXCEPT ![p] = {q \in Procs \ {p} : Leased(q)}]
  /\ UNCHANGED <<result, err>>
  /\ UNCHANGED <<req, pubKey, sshPort, cid, desc>>
  /\ UNCHANGED <<avars, evars, attempts>>
  /\ UNCHANGED xvars

\* findAvailableSshPort, the for loop with its bind probes, and the return
ScanPorts(p) ==
  /\ pc[p] = "scan"
  /\ LET port == ScanSshPorts(usedPorts[p]) IN
     IF port = NoPort
     THEN /\ RespondError(p, "PortExhausted")
          /\ UNCHANGED sshPort
     ELSE /\ sshPort' = [sshPort EXCEPT ![p] = port]
          /\ Advance(p, "port")
  /\ UNCHANGED <<req, pubKey, cid, desc, log>>
  /\ UNCHANGED <<avars, evars, attempts>>
  /\ UNCHANGED xvars

\* mapState: the engine's status string to ContainerInfo.state
mapState(state) ==
  IF state \in {"running", "exited", "created", "paused"} THEN state ELSE "stopped"

\* extractSshPortFromInspect: NetworkSettings.Ports['22/tcp'][0].HostPort,
\* which the engine fills in for a running container only
extractSshPortFromInspect(c) ==
  IF c.state = "running" /\ c.ports # {}
  THEN CHOOSE q \in c.ports : \A r \in c.ports : q <= r
  ELSE NoPort

\* join(SSH_KEYS_DIR, `${name}.pem`), relative to the project root
privateKeyPath(name) == "data/ssh-keys/" \o name \o ".pem"

\* sshPort ? `ssh -p ${sshPort} root@localhost` : null, as its words
SshCommand(port) ==
  IF port # NoPort THEN <<"ssh", "-p", ToString(port), "root@localhost">> ELSE NoCommand

\* getContainer(id): the ContainerInfo of an inspected container
getContainer(c) ==
  [id |-> c.id, name |-> c.name, image |-> c.image,
   state |-> mapState(c.state), sshPort |-> extractSshPortFromInspect(c),
   sshCommand |-> SshCommand(extractSshPortFromInspect(c))]

\* dockerService.createContainer({name, image, sshPort, ...})
CreateContainer(p, ok) ==
  /\ pc[p] = "create"
  /\ Enter(p, "create")
  /\ IF ok /\ EngineCanCreate(req[p].name)
     THEN /\ containers' = containers \cup
               {[id |-> nextId, name |-> req[p].name, managed |-> TRUE,
                 image |-> images[req[p].name], ports |-> {sshPort[p]},
                 state |-> "created"]}
          /\ nextId' = nextId + 1
          /\ cid' = [cid EXCEPT ![p] = nextId]
          /\ Advance(p, "create")
     ELSE /\ RespondError(p, "ContainerCreateFailed")
          /\ UNCHANGED <<containers, nextId, cid>>
  /\ UNCHANGED <<req, pubKey, sshPort, desc>>
  /\ UNCHANGED <<avars, attempts, keyStore, nextKey, images, hostListeners, engineOnLoopback>>
  /\ UNCHANGED xvars

\* the engine's start of container id
EngineStart(id) ==
  containers' = {IF c.id = id THEN [c EXCEPT !.state = "running"] ELSE c : c \in containers}

\* container.start() called without await: a rejection is never observed
StartNotAwaited(p, ok) == TRUE

\* await container.start() resolves: the engine reached, the container there
\* and not started yet (the engine answers 304 for a running one, which the
\* client throws), its port bound
StartResolves(p, ok) ==
  /\ ok
  /\ Exists(cid[p])
  /\ ContainerById(cid[p]).state # "running"
  /\ EngineCanBind(cid[p], ContainerById(cid[p]).ports)

\* await container.start()
StartContainer(p, ok) ==
  /\ pc[p] = "start"
  /\ Enter(p, "start")
  /\ IF StartResolves(p, ok)
     THEN /\ EngineStart(cid[p])
          /\ Advance(p, "start")
     ELSE /\ RespondError(p, "ContainerStartFailed")
          /\ UNCHANGED containers
  /\ UNCHANGED <<req, pubKey, sshPort, cid, desc>>
  /\ UNCHANGED <<avars, attempts, keyStore, nextKey, images, nextId, hostListeners, engineOnLoopback>>
  /\ UNCHANGED xvars

\* dockerService.getContainer(container.id), then return { container, privateKeyPath }
InspectContainer(p, ok) ==
  /\ pc[p] = "inspect"
  /\ Enter(p, "inspect")
  /\ IF ok /\ Exists(cid[p])
     THEN /\ desc' = [desc EXCEPT ![p] = getContainer(ContainerById(cid[p]))]
          /\ Return(p, "ok", "none")
     ELSE /\ RespondError(p, "InspectFailed")
          /\ UNCHANGED desc
  /\ UNCHANGED <<req, pubKey, sshPort, cid>>
  /\ UNCHANGED <<avars, evars, attempts>>
  /\ UNCHANGED xvars

\* ------------------------------------------------ the other container routes
\* DELETE /:id for an id that GET /containers lists (a managed container);
\* first statement: getContainer(id), null when inspect throws
DeleteInspect(id, ok) ==
  /\ apc = "idle"
  /\ adminOps < MaxAdminOps
  /\ Exists(id) /\ ContainerById(id).managed
  /\ adminOps' = adminOps + 1
  /\ aid' = id
  /\ ainfo' = IF ok THEN ContainerById(id).name ELSE ""
  /\ apc' = IF ok THEN "cleanup" ELSE "remove"
  /\ UNCHANGED <<pvars, evars, attempts>>
  /\ UNCHANGED xvars

\* cleanupContainerKeys without the rm
cleanupContainerKeysKeep(name) == keyStore' = keyStore

\* cleanupContainerKeys with rm -r of the key directory
cleanupContainerKeysAll(name) == keyStore' = [n \in Names |-> NoKey]

\* cleanupContainerKeys(container.name): rm of the key file, errors ignored
cleanupContainerKeys(name) ==
  keyStore' = [n \in Names |-> IF n = name THEN NoKey ELSE keyStore[n]]

DeleteCleanup ==
  /\ apc = "cleanup"
  /\ cleanupContainerKeys(ainfo)
  /\ apc' = "remove"
  /\ UNCHANGED <<pvars, aid, ainfo, adminOps, attempts>>
  /\ UNCHANGED <<nextKey, images, containers, nextId, hostListeners, engineOnLoopback>>
  /\ UNCHANGED xvars

\* dockerService.removeContainer(id): container.remove({ force: true })
DeleteRemove(ok) ==
  /\ apc = "remove"
  /\ apc' = "idle"
  /\ aid' = NoId
  /\ ainfo' = ""
  /\ containers' = IF ok THEN {c \in containers : c.id # aid} ELSE containers
  /\ UNCHANGED <<pvars, adminOps, attempts>>
  /\ UNCHANGED <<keyStore, nextKey, images, nextId, hostListeners, engineOnLoopback>>
  /\ UNCHANGED xvars

\* POST /:id/stop for a listed container: dockerService.stopContainer(id).
\* The engine stops a running container and releases its port; for any other
\* state, or when unreachable, the call throws and the route answers 500.
StopRoute(id, ok) ==
  /\ adminOps < MaxAdminOps
  /\ Exists(id) /\ ContainerById(id).managed
  /\ adminOps' = adminOps + 1
  /\ containers' =
       IF ok /\ ContainerById(id).state = "running"
       THEN {IF c.id = id THEN [c EXCEPT !.state = "exited"] ELSE c : c \in containers}
       ELSE containers
  /\ UNCHANGED <<pvars, apc, aid, ainfo, attempts>>
  /\ UNCHANGED <<keyStore, nextKey, images, nextId, hostListeners, engineOnLoopback>>
  /\ UNCHANGED xvars

\* POST /:id/start for a listed container: dockerService.startContainer(id).
\* The engine starts a container that is not running if it can bind its port.
StartRoute(id, ok) ==
  /\ adminOps < MaxAdminOps
  /\ Exists(id) /\ ContainerById(id).managed
  /\ adminOps' = adminOps + 1
  /\ IF /\ ok
        /\ ContainerById(id).state # "running"
        /\ EngineCanBind(id, ContainerById(id).ports)
     THEN EngineStart(id)
     ELSE UNCHANGED containers
  /\ UNCHANGED <<pvars, apc, aid, ainfo, attempts>>
  /\ UNCHANGED <<keyStore, nextKey, images, nextId, hostListeners, engineOnLoopback>>
  /\ UNCHANGED xvars

\* ------------------------------------------------------------ specification
\* A container the manager did not create, publishing the given ports.
Unmanaged(ports) ==
  [id |-> 1, name |-> "x", managed |-> FALSE, image |-> NoKey, ports |-> ports,
   state |-> "running"]

\* The hosts the server starts on: OS listeners, foreign containers, and
\* whether the engine's published ports occupy the probed loopback sockets.
Worlds ==
  { [listeners |-> {SSH_PORT_START}, others |-> {}, loopback |-> TRUE],
    [listeners |-> SshPorts, others |-> {}, loopback |-> TRUE],
    [listeners |-> {}, others |-> {Unmanaged(SshPorts)}, loopback |-> FALSE] }

InitServer ==
  /\ pc = [p \in Procs |-> "idle"]
  /\ req = [p \in Procs |-> NoRequest]
  /\ pubKey = [p \in Procs |-> NoKey]
  /\ usedPorts = [p \in Procs |-> {}]
  /\ sshPort = [p \in Procs |-> NoPort]
  /\ cid = [p \in Procs |-> NoId]
  /\ result = [p \in Procs |-> "none"]
  /\ err = [p \in Procs |-> "none"]
  /\ desc = [p \in Procs |-> NoDesc]
  /\ log = [p \in Procs |-> <<>>]
  /\ keyStore = [n \in Names |-> NoKey]
  /\ nextKey = 1
  /\ images = [n \in Names |-> NoKey]
  /\ \E w \in Worlds :
       /\ containers = w.others
       /\ hostListeners = w.listeners
       /\ engineOnLoopback = w.loopback
  /\ nextId = 2
  /\ attempts = 0
  /\ publishedAtCall = [p \in Procs |-> {}]
  /\ priorLeases = [p \in Procs |-> {}]
  /\ apc = "idle"
  /\ aid = NoId
  /\ ainfo = ""
  /\ adminOps = 0

Init ==
  /\ InitServer
  /\ call = NoCall
  /\ stream = NoStream

Next ==
  \/ \E p \in Procs, r \in Requests : Provision(p, r)
  \/ \E p \in Procs : Respond(p)
  \/ \E p \in Procs, ok \in BOOLEAN : GenerateKey(p, ok)
  \/ \E p \in Procs, outcome \in BuildOutcomes : BuildImage(p, outcome)
  \/ \E p \in Procs, ok \in BOOLEAN : ListPorts(p, ok)
  \/ \E p \in Procs : ScanPorts(p)
  \/ \E p \in Procs, ok \in BOOLEAN : CreateContainer(p, ok)
  \/ \E p \in Procs, ok \in BOOLEAN : StartContainer(p, ok)
  \/ \E p \in Procs, ok \in BOOLEAN : InspectContainer(p, ok)
  \/ \E c \in containers, ok \in BOOLEAN : DeleteInspect(c.id, ok)
  \/ DeleteCleanup
  \/ \E ok \in BOOLEAN : DeleteRemove(ok)

Spec == Init /\ [][Next]_vars

\* The server with the start and stop routes served as well.
LifecycleNext ==
  \/ Next
  \/ \E c \in containers, ok \in BOOLEAN : StopRoute(c.id, ok)
  \/ \E c \in containers, ok \in BOOLEAN : StartRoute(c.id, ok)

LifecycleSpec == Init /\ [][LifecycleNext]_vars

\* no provisioning attempt, removal, stop or start is being served
NoneActive == apc = "idle" /\ \A p \in Procs : pc[p] = "idle"

\* a request sent by a caller that waited for the answer to the previous one
SequentialProvision(p, r) == NoneActive /\ Provision(p, r)
SequentialDelete(id, ok) == NoneActive /\ DeleteInspect(id, ok)
SequentialStop(id, ok) == NoneActive /\ StopRoute(id, ok)
SequentialStart(id, ok) == NoneActive /\ StartRoute(id, ok)

\* The server with callers that send a request only after the previous one
\* was answered: no two operations overlap.
SequentialNext ==
  \/ \E p \in Procs, r \in Requests : SequentialProvision(p, r)
  \/ \E c \in containers, ok \in BOOLEAN : SequentialDelete(c.id, ok)
  \/ \E c \in containers, ok \in BOOLEAN : SequentialStop(c.id, ok)
  \/ \E c \in containers, ok \in BOOLEAN : SequentialStart(c.id, ok)
  \/ \E p \in Procs : Respond(p)
  \/ \E p \in Procs, ok \in BOOLEAN : GenerateKey(p, ok)
  \/ \E p \in Procs, outcome \in BuildOutcomes : BuildImage(p, outcome)
  \/ \E p \in Procs, ok \in BOOLEAN : ListPorts(p, ok)
  \/ \E p \in Procs : ScanPorts(p)
  \/ \E p \in Procs, ok \in BOOLEAN : CreateContainer(p, ok)
  \/ \E p \in Procs, ok \in BOOLEAN : StartContainer(p, ok)
  \/ \E p \in Procs, ok \in BOOLEAN : InspectContainer(p, ok)
  \/ DeleteCleanup
  \/ \E ok \in BOOLEAN : DeleteRemove(ok)

SequentialSpec == Init /\ [][SequentialNext]_vars

TypeOK ==
  /\ pc \in [Procs -> {"idle", "done", "keygen", "build", "port", "scan", "create", "start", "inspect"}]
  /\ result \in [Procs -> {"none", "ok", "error"}]
  /\ keyStore \in [Names -> 0 .. MaxAttempts]


\* ------------------------------------------------ recipe build with log stream
MaxLogLines == 2          \* progress lines of one build

\* progress lines the engine sends during a build
LogLines == {"Step 1/2 : FROM debian", "Step 2/2 : RUN make"}

\* the image a recipe build produces: it carries the key getPublicKey returns,
\* which is not the key of a provisioning attempt
RecipeKey == -1

\* const tag = `acm-${name}:latest`
Tag(name) == "acm-" \o name \o ":latest"

\* error.message of a rejected build
BuildMessage(outcome) ==
  CASE outcome = "streamError"    -> "The command returned a non-zero code"
    [] outcome = "transportError" -> "connect ECONNREFUSED"
    [] outcome = "noStream"       -> "No stream returned from buildImage"

\* controller.enqueue of `event: <event>\ndata: <data>`
sendEvent(events, event, data) == Append(events, [event |-> event, data |-> data])

\* buildImageWithLogs resolves when the build finished and rejects otherwise
buildImageWithLogs(outcome) == outcome = "finished"

\* POST /:name/build up to the return of the Response: the recipe is read, the
\* stream is opened and start(controller) calls buildImageWithLogs
StreamStart(name) ==
  /\ stream.pc = "idle"
  /\ stream' = [pc |-> "building", name |-> name, events |-> <<>>, closes |-> 0]
  /\ UNCHANGED <<pvars, avars, evars, attempts, call>>

\* buildImageWithLogs forwards a progress line: (log) => sendEvent('log', log)
BuildLog(line) ==
  /\ stream.pc = "building"
  /\ Len(stream.events) < MaxLogLines
  /\ stream' = [stream EXCEPT !.events = sendEvent(@, "log", line)]
  /\ UNCHANGED <<pvars, avars, evars, attempts, call>>

\* the handler with controller.close() in the try block instead of finally
StreamSettleCloseInTry(outcome) ==
  /\ stream.pc = "building"
  /\ stream' =
       [stream EXCEPT
          !.pc = "closed",
          !.events = IF buildImageWithLogs(outcome)
                     THEN sendEvent(@, "done", Tag(stream.name))
                     ELSE sendEvent(@, "error", BuildMessage(outcome)),
          !.closes = IF buildImageWithLogs(outcome) THEN @ + 1 ELSE @]
  /\ images' = IF outcome = "finished"
               THEN [images EXCEPT ![stream.name] = RecipeKey]
               ELSE images
  /\ UNCHANGED <<pvars, avars, attempts, call>>
  /\ UNCHANGED <<keyStore, nextKey, containers, nextId, hostListeners, engineOnLoopback>>

\* the await of buildImageWithLogs settles: sendEvent('done', tag) in the try
\* block or sendEvent('error', message) in the catch block, then
\* controller.close() in the finally block.  The engine has tagged the image
\* when the build finished.
StreamSettle(outcome) ==
  /\ stream.pc = "building"
  /\ stream' =
       [stream EXCEPT
          !.pc = "closed",
          !.events = IF buildImageWithLogs(outcome)
                     THEN sendEvent(@, "done", Tag(stream.name))
                     ELSE sendEvent(@, "error", BuildMessage(outcome)),
          !.closes = @ + 1]
  /\ images' = IF outcome = "finished"
               THEN [images EXCEPT ![stream.name] = RecipeKey]
               ELSE images
  /\ UNCHANGED <<pvars, avars, attempts, call>>
  /\ UNCHANGED <<keyStore, nextKey, containers, nextId, hostListeners, engineOnLoopback>>

StreamNext ==
  \/ \E name \in Names : StreamStart(name)
  \/ \E line \in LogLines : BuildLog(line)
  \/ \E outcome \in BuildOutcomes : StreamSettle(outcome)

StreamSpec == Init /\ [][StreamNext]_vars

\* ------------------------------------------------------- image build route
\* an image built from the recipe text of the request as it is: it holds the
\* key of no provisioning attempt
UserImage == -2

\* tags a caller of POST /images/build may name
BuildTags == {Tag(n) : n \in Names} \cup {"scratch:latest"}

\* POST /images/build {dockerfile, tag}: dockerService.buildImage(dockerfile,
\* tag); the engine moves the tag to the new image when the build finished
ImagesBuild(tag, outcome) ==
  /\ images' = [n \in Names |->
                  IF outcome = "finished" /\ Tag(n) = tag THEN UserImage ELSE images[n]]
  /\ UNCHANGED <<pvars, avars, attempts, xvars>>
  /\ UNCHANGED <<keyStore, nextKey, containers, nextId, hostListeners, engineOnLoopback>>

\* The server with the recipe build and the image build routes served as well,
\* while the requests to the container routes do not overlap one another.
BuildsNext ==
  \/ SequentialNext
  \/ StreamNext
  \/ \E tag \in BuildTags, outcome \in BuildOutcomes : ImagesBuild(tag, outcome)

BuildsSpec == Init /\ [][BuildsNext]_vars

\* ------------------------------------------- service functions on their own
\* JavaScript values of a port besides the numbers from 0 on
JsNull == -1
NaN == -2
JsUndefined == -3

\* a number | null | undefined in a condition: 0, NaN, null, undefined are falsy
JsTruthy(v) == v \notin {0, NaN, JsNull, JsUndefined}

\* HostPort strings of a port binding
HostPorts == {"2222", "2321", "0", "", "abc"}

\* parseInt(text, 10) of those strings: NaN when no digits lead the text
parseInt(text) ==
  CASE text = "2222" -> 2222
    [] text = "2321" -> 2321
    [] text = "0"    -> 0
    [] OTHER         -> NaN

MaxBindings == 2          \* port entries the engine reports for one container

SeqsUpTo(S, n) == UNION {[1 .. k -> S] : k \in 0 .. n}

\* info.NetworkSettings.Ports['22/tcp']: undefined or null (present FALSE), or
\* an array of bindings
InspectBindings ==
  {[present |-> FALSE, hostPorts |-> <<>>]} \cup
  {[present |-> TRUE, hostPorts |-> h] : h \in SeqsUpTo(HostPorts, MaxBindings)}

\* container.Ports of docker.listContainers: private port and, when the port
\* is published, the public port
ListedPorts ==
  SeqsUpTo([PrivatePort : {22, 80}, PublicPort : {JsUndefined, 0, 2222}], MaxBindings)

\* extractSshPortFromInspect on the engine's value
sshPortOfInspect(bindings) ==
  IF bindings.present /\ Len(bindings.hostPorts) > 0
  THEN parseInt(bindings.hostPorts[1])
  ELSE JsNull

\* extractSshPort: ports.find(p => p.PrivatePort === 22)?.PublicPort || null
sshPortOfList(ports) ==
  LET found == {i \in 1 .. Len(ports) : ports[i].PrivatePort = 22} IN
  IF found = {} THEN JsNull
  ELSE LET first == ports[CHOOSE i \in found : \A j \in found : i <= j] IN
       IF JsTruthy(first.PublicPort) THEN first.PublicPort ELSE JsNull

\* sshPort and sshCommand of the ContainerInfo that getContainer and
\* listContainers build: sshCommand: sshPort ? `ssh -p ...` : null
PortFields(port) ==
  [sshPort |-> port,
   sshCommand |-> IF JsTruthy(port) THEN SshCommand(port) ELSE NoCommand]

\* getContainer applied to an inspect result
ApplyGetContainer ==
  /\ call.fn = "getContainer" /\ "out" \notin DOMAIN call
  /\ call' = [fn |-> call.fn, arg |-> call.arg,
              out |-> PortFields(sshPortOfInspect(call.arg))]
  /\ UNCHANGED <<pvars, avars, evars, attempts, stream>>

\* listContainers applied to one listed container
ApplyListContainers ==
  /\ call.fn = "listContainers" /\ "out" \notin DOMAIN call
  /\ call' = [fn |-> call.fn, arg |-> call.arg,
              out |-> PortFields(sshPortOfList(call.arg))]
  /\ UNCHANGED <<pvars, avars, evars, attempts, stream>>

MaxVolumes == 2           \* volumes of one request

\* volumes of a request: name and mountPath are any strings (z.string()); a
\* name that is an absolute path names a host directory to the engine
VolumeNames == {"v1", "/srv"}
MountPaths == {"/workspace", "/data"}
VolumeLists == SeqsUpTo([name : VolumeNames, mountPath : MountPaths], MaxVolumes)

IsHostPath(name) == name = "/srv"

\* createContainer: binds = volumes.map(v => `${v.name}:${v.mountPath}`)
Binds(volumes) ==
  [i \in 1 .. Len(volumes) |->
     [source |-> volumes[i].name, destination |-> volumes[i].mountPath]]

\* the engine refuses a container with two mounts at one destination
EngineAcceptsBinds(binds) ==
  \A i, j \in 1 .. Len(binds) : binds[i].destination = binds[j].destination => i = j

\* info.Mounts of the created container: a bind whose source is a path is a
\* mount of Type bind without a Name, any other source a named volume
EngineMounts(binds) ==
  [i \in 1 .. Len(binds) |->
     IF IsHostPath(binds[i].source)
     THEN [Type |-> "bind", Name |-> "", Destination |-> binds[i].destination]
     ELSE [Type |-> "volume", Name |-> binds[i].source,
           Destination |-> binds[i].destination]]

IsVolume(m) == m.Type = "volume"

\* extractVolumesFromInspect: mounts.filter(Type === 'volume').map(...)
extractVolumesFromInspect(mounts) ==
  LET kept == SelectSeq(mounts, IsVolume) IN
  [i \in 1 .. Len(kept) |-> [name |-> kept[i].Name, mountPath |-> kept[i].Destination]]

\* the volumes of a request through createContainer, the engine and getContainer
ApplyVolumes ==
  /\ call.fn = "volumes" /\ "out" \notin DOMAIN call
  /\ call' = [fn |-> call.fn, arg |-> call.arg,
              out |-> IF EngineAcceptsBinds(Binds(call.arg))
                      THEN [created |-> TRUE,
                            volumes |-> extractVolumesFromInspect(EngineMounts(Binds(call.arg)))]
                      ELSE [created |-> FALSE, volumes |-> <<>>]]
  /\ UNCHANGED <<pvars, avars, evars, attempts, stream>>

MaxLines == 2             \* lines of a user recipe

\* lines of a user recipe
RecipeLines ==
  {"FROM debian", "RUN apt-get install -y openssh-server",
   "CMD node app.js", "ENTRYPOINT /init", "entrypoint /init"}
Recipes == SeqsUpTo(RecipeLines, MaxLines)

\* dockerfile.includes('openssh-server')
IncludesOpensshServer(dockerfile) ==
  \E i \in 1 .. Len(dockerfile) : dockerfile[i] = "RUN apt-get install -y openssh-server"

\* a line matched by /^(CMD|ENTRYPOINT).*$/gm
MatchesCmdPattern(line) == line \in {"CMD node app.js", "ENTRYPOINT /init"}

SshdCmd == "CMD [\"/usr/sbin/sshd\", \"-D\"]"

\* a line the engine reads as a CMD or ENTRYPOINT instruction: instruction
\* names are not case-sensitive
IsForegroundDirective(line) ==
  line \in {"CMD node app.js", "ENTRYPOINT /init", "entrypoint /init", SshdCmd}

KeyLine(publicKey) ==
  "RUN echo '" \o ToString(publicKey) \o "' > /root/.ssh/authorized_keys"

\* injectSshIntoDockerfile(dockerfile, publicKey), a recipe as its lines
injectSshIntoDockerfile(dockerfile, publicKey) ==
  IF IncludesOpensshServer(dockerfile)
  THEN dockerfile \o <<"RUN mkdir -p /root/.ssh", KeyLine(publicKey)>>
  ELSE [i \in 1 .. Len(dockerfile) |->
          IF MatchesCmdPattern(dockerfile[i]) THEN "" ELSE dockerfile[i]]
       \o <<"RUN apt-get update && apt-get install -y openssh-server",
            KeyLine(publicKey), "EXPOSE 22", SshdCmd>>

ApplyInjectSsh ==
  /\ call.fn = "injectSshIntoDockerfile" /\ "out" \notin DOMAIN call
  /\ call' = [fn |-> call.fn, arg |-> call.arg,
              out |-> injectSshIntoDockerfile(call.arg, 1)]
  /\ UNCHANGED <<pvars, avars, evars, attempts, stream>>

FunctionInit ==
  /\ InitServer
  /\ stream = NoStream
  /\ \/ \E b \in InspectBindings : call = [fn |-> "getContainer", arg |-> b]
     \/ \E l \in ListedPorts : call = [fn |-> "listContainers", arg |-> l]
     \/ \E v \in VolumeLists : call = [fn |-> "volumes", arg |-> v]
     \/ \E d \in Recipes : call = [fn |-> "injectSshIntoDockerfile", arg |-> d]

FunctionNext ==
  \/ ApplyGetContainer
  \/ ApplyListContainers
  \/ ApplyVolumes
  \/ ApplyInjectSsh

FunctionSpec == FunctionInit /\ [][FunctionNext]_vars

\* ------------------------------------------------------------------ claims
Steps(p) == {log[p][i] : i \in 1 .. Len(log[p])}
Prefix(n) == SubSeq(PipelineOrder, 1, n)

\* number of steps an attempt has entered when it is at a position
EnteredAt(position) ==
  CASE position = "idle"    -> 0
    [] position = "keygen"  -> 0
    [] position = "build"   -> 2
    [] position = "port"    -> 3
    [] position = "scan"    -> 4
    [] position = "create"  -> 4
    [] position = "start"   -> 5
    [] position = "inspect" -> 6

\* number of steps an attempt has entered when it fails with an error
EnteredAtError(e) ==
  CASE e = "KeyGenerationFailed"   -> 1
    [] e = "InvalidRequest"        -> 1
    [] e = "BuildFailed"           -> 3
    [] e = "PortExhausted"         -> 4
    [] e = "ContainerCreateFailed" -> 5
    [] e = "ContainerStartFailed"  -> 6
    [] e = "InspectFailed"         -> 7

\* C1: the steps an attempt has entered are always an initial part of
\* keygen, synth, build, port, create, start, inspect, each entered only after
\* the one before it completed; an attempt that failed entered no step after
\* the one that failed, and a successful attempt entered all seven.
C1_StepsInOrder ==
  \A p \in Procs :
    /\ pc[p] # "done" => log[p] = Prefix(EnteredAt(pc[p]))
    /\ pc[p] = "done" /\ result[p] = "error" => log[p] = Prefix(EnteredAtError(err[p]))
    /\ pc[p] = "done" /\ result[p] = "ok" => log[p] = PipelineOrder

\* C1 witness: one attempt ran all seven steps while another stopped at a
\* failed build
C1_Witness ==
  \E p, q \in Procs :
    /\ pc[p] = "done" /\ result[p] = "ok" /\ log[p] = PipelineOrder
    /\ pc[q] = "done" /\ err[q] = "BuildFailed" /\ log[q] = <<"keygen", "synth", "build">>

\* C2: two attempts that hold a port at the same time hold different ports.
C2_ConcurrentPortsDiffer ==
  \A p, q \in Procs :
    p # q /\ Leased(p) /\ Leased(q) => sshPort[p] # sshPort[q]

\* C3: when an attempt starts its container while the container of another
\* attempt given the same port is running on that port, the start is rejected,
\* the attempt ends with an error response, and the other attempt, its outcome
\* and its running container are left as they were.
C3_SecondBindRejected ==
  [][\A p, q \in Procs :
       ( /\ p # q
         /\ pc[q] = "start" /\ pc'[q] # "start"
         /\ sshPort[p] = sshPort[q]
         /\ Exists(cid[p]) /\ ContainerById(cid[p]).state = "running"
         /\ Exists(cid[q]) )
       => /\ pc'[q] = "done" /\ result'[q] = "error"
          /\ err'[q] = "ContainerStartFailed"
          /\ pc'[p] = pc[p] /\ result'[p] = result[p]
          /\ ContainerById(cid[p]) \in containers'
          /\ \A c \in containers' : c.state = "running" /\ sshPort[q] \in c.ports => c.id = cid[p]
    ]_vars

\* C3 witness: both attempts were given the same port, the second start was
\* rejected and the first attempt succeeded with its container running on it
C3_Witness ==
  \E p, q \in Procs :
    /\ p # q /\ sshPort[p] = sshPort[q] /\ sshPort[p] # NoPort
    /\ pc[q] = "done" /\ err[q] = "ContainerStartFailed" /\ Exists(cid[q])
    /\ pc[p] = "done" /\ result[p] = "ok" /\ desc[p].sshPort = sshPort[p]
    /\ Exists(cid[p]) /\ ContainerById(cid[p]).state = "running"


\* C4: the port findAvailableSshPort returns was not published by a container
\* when the call was made and is not held by a host listener.
C4_ReturnedPortNotOccupied ==
  \A p \in Procs :
    pc[p] = "create" =>
      /\ sshPort[p] \notin publishedAtCall[p]
      /\ sshPort[p] \notin hostListeners

\* C5: a call of findAvailableSshPort made after another attempt was given a
\* port does not return that port while the other attempt still holds it.
C5_SequentialCallsDiffer ==
  \A q \in Procs :
    Leased(q) => \A p \in priorLeases[q] : sshPort[p] # sshPort[q]

\* every port of 2222 .. 2321 is published by a container or held by a listener
RangeOccupied == \A port \in SshPorts : port \in PublishedPorts \/ port \in hostListeners

\* C6: while every port of the range is occupied, an attempt that reached port
\* allocation ends with PortExhausted and never calls container create.
C6_ExhaustedRangeFails ==
  RangeOccupied =>
    \A p \in Procs :
      /\ "create" \notin Steps(p)
      /\ ~Leased(p)
      /\ pc[p] = "done" /\ "port" \in Steps(p) => err[p] = "PortExhausted"

Neither(r) == ~Truthy(r.image) /\ ~Truthy(r.dockerfile)
Both(r) == Truthy(r.image) /\ Truthy(r.dockerfile)

\* C7: an attempt whose request has neither image nor dockerfile enters no
\* engine step, and ends with InvalidRequest.
C7_NeitherIsInvalidRequest ==
  \A p \in Procs :
    pc[p] # "idle" /\ Neither(req[p]) =>
      /\ Steps(p) \cap EngineSteps = {}
      /\ pc[p] = "done" => result[p] = "error" /\ err[p] = "InvalidRequest"

\* C8: an attempt succeeds only if exactly one of image and dockerfile is
\* given: a request that gives both never succeeds.
C8_BothIsRejected ==
  \A p \in Procs :
    pc[p] = "done" /\ result[p] = "ok" => ~Both(req[p]) /\ ~Neither(req[p])

\* C9: an attempt rejected with InvalidRequest has not run key generation: it
\* removed no key and created none.
C9_ValidationBeforeKeygen ==
  \A p \in Procs :
    pc[p] = "done" /\ err[p] = "InvalidRequest" =>
      /\ "keygen" \notin Steps(p)
      /\ pubKey[p] = NoKey

\* C10: when generateSshKeyPair succeeds, the key read back for the name is the
\* new key, it differs from the key stored before and from every other stored
\* key; and the key read for a name changes only by a key generation or a
\* cleanup for that name.
C10_GenerateReplacesKey ==
  [][/\ \A p \in Procs :
          pc[p] = "keygen" /\ pc'[p] # "keygen" /\ err'[p] # "KeyGenerationFailed" =>
            /\ getPrivateKey(req[p].name)' = pubKey'[p]
            /\ pubKey'[p] # NoKey
            /\ \A n \in Names : pubKey'[p] # getPrivateKey(n)
     /\ \A n \in Names :
          getPrivateKey(n)' # getPrivateKey(n) =>
            \/ \E p \in Procs : pc[p] = "keygen" /\ pc'[p] # "keygen" /\ req[p].name = n
            \/ apc = "cleanup" /\ apc' = "remove" /\ ainfo = n
    ]_vars

\* C10 witness: a second generation for name a after the first key was baked
\* into its image: the store holds the second key only
C10_Witness ==
  \E p \in Procs :
    /\ pc[p] = "build" /\ req[p].name = "a"
    /\ images["a"] # NoKey /\ pubKey[p] # images["a"]
    /\ getPrivateKey("a") = pubKey[p]

C12_OtherNamesUntouched ==
  [][/\ \A p \in Procs :
          pc'[p] # pc[p] =>
            \A n \in Names \ {req[p].name, req'[p].name} :
              getPrivateKey(n)' = getPrivateKey(n)
     /\ apc' # apc =>
          \A n \in Names \ {ainfo, ainfo'} : getPrivateKey(n)' = getPrivateKey(n)
    ]_vars

\* C12 witness: while the attempt for b is still running, a key for a was
\* generated after the key of b, and the key of b is the one of its attempt
C12_Witness ==
  \E p, q \in Procs :
    /\ req[p].name = "b" /\ pc[p] \in {"build", "port", "scan", "create", "start", "inspect"}
    /\ req[q].name = "a" /\ pubKey[q] > pubKey[p]
    /\ getPrivateKey("b") = pubKey[p] /\ getPrivateKey("a") = pubKey[q]

\* C13: an attempt whose key generation failed (it holds no public key) has
\* ended with the key-generation error and entered no engine step.
C13_KeygenFailureAborts ==
  \A p \in Procs :
    pc[p] \notin {"idle", "keygen"} /\ pubKey[p] = NoKey =>
      /\ pc[p] = "done" /\ result[p] = "error" /\ err[p] = "KeyGenerationFailed"
      /\ Steps(p) \cap EngineSteps = {}
      /\ cid[p] = NoId /\ sshPort[p] = NoPort

\* C13 witness: key generation failed for a request that names a base image,
\* and the engine holds no image and no container of the name
C13_Witness ==
  \E p \in Procs :
    /\ pc[p] = "done" /\ err[p] = "KeyGenerationFailed" /\ log[p] = <<"keygen">>
    /\ req[p].name = "b" /\ images["b"] = NoKey
    /\ ~\E c \in containers : c.name = "b"

C15_FailureRollsBack ==
  \A p \in Procs :
    pc[p] = "done" /\ result[p] = "error" /\ "build" \in Steps(p) =>
      /\ getPrivateKey(req[p].name) # pubKey[p]
      /\ images[req[p].name] # pubKey[p]

\* C16: when DELETE removes a managed container from the engine and no
\* provisioning attempt for its name is running, the key store holds no key
\* for the container's name after the removal.
C16_NoKeyOutlivesContainer ==
  [][\A c \in containers :
       ( /\ c.managed
         /\ ~\E d \in containers' : d.id = c.id
         /\ \A p \in Procs : pc[p] \in {"idle", "done"} \/ req[p].name # c.name )
       => getPrivateKey(c.name)' = NoKey
    ]_vars

\* C17: an attempt whose listing of the published ports did not return them
\* (the engine call failed) ends at that step with an error.
C17_ListingFailureAborts ==
  [][\A p \in Procs :
       pc[p] = "port" /\ pc'[p] # "port" /\ usedPorts'[p] # PublishedPorts
       => pc'[p] = "done" /\ result'[p] = "error"
    ]_vars

\* C18: a build step after which the engine holds no image of the attempt (the
\* build failed) ends the attempt with BuildFailed, and an attempt that ended
\* with BuildFailed entered neither port allocation nor a later step.
C18_FailedBuildNeverSucceeds ==
  [][\A p \in Procs :
       /\ pc[p] = "build" /\ pc'[p] # "build" /\ images'[req[p].name] # pubKey[p]
          => pc'[p] = "done" /\ result'[p] = "error" /\ err'[p] = "BuildFailed"
       /\ err[p] = "BuildFailed"
          => /\ pc[p] = "done"
             /\ Steps(p) \cap {"port", "create", "start", "inspect"} = {}
             /\ sshPort[p] = NoPort /\ cid[p] = NoId
    ]_vars

\* C18 witness: a build failed, the engine holds no image under the tag and the
\* attempt stopped at the build
C18_Witness ==
  \E p \in Procs :
    /\ pc[p] = "done" /\ result[p] = "error" /\ err[p] = "BuildFailed"
    /\ images[req[p].name] = NoKey /\ pubKey[p] # NoKey
    /\ sshPort[p] = NoPort /\ ~\E c \in containers : c.name = req[p].name

\* the words of an sshCommand
Words(command) == {command[i] : i \in 1 .. Len(command)}

\* C19: the descriptor of a successful attempt has an sshPort, in 2222 .. 2321,
\* equal to the port the attempt allocated, and the state running.
C19_DescriptorPortAndState ==
  \A p \in Procs :
    pc[p] = "done" /\ result[p] = "ok" =>
      /\ desc[p].sshPort # NoPort
      /\ desc[p].sshPort \in SshPorts
      /\ desc[p].sshPort = sshPort[p]
      /\ desc[p].state = "running"

\* C20: the sshCommand of the descriptor of a successful attempt has the
\* allocated port and the private key path of the name among its words.
C20_CommandHasPortAndKeyPath ==
  \A p \in Procs :
    pc[p] = "done" /\ result[p] = "ok" =>
      /\ ToString(sshPort[p]) \in Words(desc[p].sshCommand)
      /\ privateKeyPath(req[p].name) \in Words(desc[p].sshCommand)

\* C21: in a descriptor built by getContainer or listContainers the sshCommand
\* is null exactly when the sshPort is null.
C21_CommandIffPort ==
  call.fn \in {"getContainer", "listContainers"} /\ "out" \in DOMAIN call =>
    (call.out.sshCommand # NoCommand <=> call.out.sshPort # JsNull)

\* C22: the volume list of the descriptor of a container created with a list
\* of volumes is that list.
C22_VolumesRoundTrip ==
  call.fn = "volumes" /\ "out" \in DOMAIN call /\ call.out.created =>
    call.out.volumes = call.arg

\* C23: the recipe injectSshIntoDockerfile returns has exactly one CMD or
\* ENTRYPOINT instruction, the injected sshd command.
C23_OneForegroundDirective ==
  call.fn = "injectSshIntoDockerfile" /\ "out" \in DOMAIN call =>
    SelectSeq(call.out, IsForegroundDirective) = <<SshdCmd>>

Terminals(events) == {i \in 1 .. Len(events) : events[i].event \in {"done", "error"}}

\* C24: the events of a recipe build are log events followed by at most one
\* terminal event, which is the last event; the stream is closed at most once
\* and only after the terminal event; a closed stream ends with done and the
\* tag when the engine tagged the image, and with error when it did not.
C24_StreamProtocol ==
  LET events == stream.events IN
  /\ Cardinality(Terminals(events)) <= 1
  /\ \A i \in Terminals(events) : i = Len(events)
  /\ stream.closes = Cardinality(Terminals(events))
  /\ stream.pc = "building" => Terminals(events) = {}
  /\ stream.pc = "closed" =>
       /\ stream.closes = 1
       /\ events[Len(events)] \in
            IF images[stream.name] = RecipeKey
            THEN {[event |-> "done", data |-> Tag(stream.name)]}
            ELSE {[event |-> "error", data |-> BuildMessage(o)] :
                    o \in BuildOutcomes \ {"finished"}}

\* C24 witness: two log events, then the error event, then the close
C24_Witness ==
  /\ stream.pc = "closed" /\ stream.closes = 1 /\ Len(stream.events) = 3
  /\ stream.events[1].event = "log" /\ stream.events[2].event = "log"
  /\ stream.events[3].event = "error"

\* the lowest port of a non-empty set
Lowest(S) == CHOOSE q \in S : \A r \in S : q <= r

\* the ports of a range that pass the loopback bind probe
Bindable(range) == {q \in range : isPortAvailable(q)}

\* C25: the scan of findAvailableSshPort returns the lowest port of 2222 .. 2321
\* that no container published when the call was made and that the bind probe
\* accepts, and fails when there is none; findAvailablePort(start, maxAttempts)
\* is the lowest port of start .. start + maxAttempts - 1 that the bind probe
\* accepts, and fails when there is none.
C25_LowestFreePort ==
  [][/\ \A p \in Procs :
          pc[p] = "scan" /\ pc'[p] # "scan" =>
            LET free == Bindable(SshPorts) \ publishedAtCall[p] IN
            IF free = {}
            THEN pc'[p] = "done" /\ result'[p] = "error" /\ err'[p] = "PortExhausted"
            ELSE pc'[p] = "create" /\ sshPort'[p] = Lowest(free)
     /\ \A startPort \in {SSH_PORT_START - 1, SSH_PORT_START} : \A maxAttempts \in 1 .. 2 :
          LET free == Bindable(startPort .. (startPort + maxAttempts - 1)) IN
          findAvailablePort(startPort, maxAttempts) = IF free = {} THEN NoPort ELSE Lowest(free)
    ]_vars

\* no provisioning attempt and no removal is under way
Quiescent == apc = "idle" /\ \A p \in Procs : pc[p] \in {"idle", "done"}

\* C26: when no operation is under way, the stored private key of the name of
\* a managed container is the one whose public key is in that container's image.
C26_StoredKeyOpensContainer ==
  Quiescent =>
    \A c \in containers :
      c.managed /\ getPrivateKey(c.name) # NoKey => getPrivateKey(c.name) = c.image

\* C27: with operations that do not overlap, no two managed containers on the
\* engine, whatever their state, are configured with the same host SSH port.
C27_NoSharedPortBinding ==
  \A c, d \in containers :
    c.managed /\ d.managed /\ c.id # d.id => c.ports \cap d.ports = {}

\* C28: an attempt that ends with an error after its create call succeeded
\* leaves no container of its own on the engine.
C28_FailedAttemptLeavesNoContainer ==
  \A p \in Procs :
    pc[p] = "done" /\ result[p] = "error" /\ cid[p] # NoId => ~Exists(cid[p])

\* C29: when DELETE /:id ends with the container still on the engine (the
\* removal failed and the route answers with an error), the private key of the
\* container's name is in the key store.
C29_FailedRemovalKeepsKey ==
  [][apc = "remove" /\ apc' = "idle" /\ (\E c \in containers' : c.id = aid)
       => keyStore'[ContainerById(aid).name] # NoKey
    ]_vars

\* C30: the container an attempt creates runs the image that holds the public
\* key of that attempt, whatever other builds were served in between.
C30_ContainerRunsOwnImage ==
  [][\A p \in Procs :
       pc[p] = "create" /\ pc'[p] = "start" =>
         \A c \in containers' : c.id = cid'[p] => c.image = pubKey[p]
    ]_vars

====
